---- MODULE Spec2Model ----
(***************************************************************************)
(* Model of src/main.py (davidhin/mal-sorter): the MyAnimeList client, its *)
(* OAuth first-run authorisation, the paginated catalogue fetch, the       *)
(* file-system cache of scraped watch histories and the reorder step that  *)
(* PATCHes score, start date and finish date back onto every item.         *)
(*                                                                         *)
(* One behaviour is a series of runs of the script over one file system    *)
(* (token.json and cache/ survive a run, everything in memory does not).   *)
(* The remote service, the browser redirect and the network are the        *)
(* environment: their answers are chosen with \E in the action that asks.  *)
(***************************************************************************)
EXTENDS Integers, Sequences, FiniteSets, TLC

\* ------------------------------------------------------------------ bounds
MaxItems == 2          \* anime ids known to the remote service: 1..MaxItems
PageLimit == 1         \* items per list page (limit=100 in the code, scaled)
MaxRuns == 2           \* runs of the script over the same working directory
MaxBadRedirects == 1   \* callback requests without a code, per run
MaxRemoteChanges == 1  \* edits of the remote list while it is being paged
MaxUpdates == 2        \* update events of one scraped history (SpecDates)

Ids == 1..MaxItems
Statuses == {"completed", "watching"}
Scores == {7}

\* ------------------------------------------------------------ text and dates
\* A string is modelled by its whitespace-separated tokens (what str.split()
\* returns); a token is a tuple of numbers.  A date token "a/b/c" is <<a, b, c>>,
\* an ISO date "y-m-d" is <<y, m, d>>, any other word is a 1-tuple.
Word == <<0>>
RemoveLabel == <<1>>

\* The text of one div.spaceit_pad of the history page,
\* "Ep 3, watched on 03/01/2020 at 10:00 Remove".
PadText(d) == <<Word, Word, Word, Word, d, Word, Word, RemoveLabel>>

Jan02 == <<1, 2, 2020>>
Feb01 == <<2, 1, 2020>>
NoDate == <<13, 1, 2020>>

\* The history pages the service may answer with: the update divs, newest first
\* as the site lists them, and whether the div.normal_header title is there.
PadLists ==
    { <<>>,
      <<PadText(Jan02)>>,
      <<PadText(Feb01), PadText(Jan02)>>,
      <<PadText(Jan02), PadText(Feb01)>>,
      <<PadText(NoDate), PadText(Jan02)>> }
HistoryPages == [header : {TRUE}, pads : PadLists] \cup {[header |-> FALSE, pads |-> <<>>]}

IsLeap(y) == (y % 4 = 0 /\ y % 100 # 0) \/ y % 400 = 0
DaysInMonth(m, y) ==
    IF m = 2 THEN (IF IsLeap(y) THEN 29 ELSE 28)
    ELSE IF m \in {4, 6, 9, 11} THEN 30 ELSE 31

\* datetime.strptime(date, "%m/%d/%Y"): the fields in the order of the format.
strptime_ok(tok) ==
    /\ Len(tok) = 3
    /\ tok[1] \in 1..12
    /\ tok[3] \in 1..9999
    /\ tok[2] \in 1..DaysInMonth(tok[1], tok[3])
\* The format read day first, "%d/%m/%Y".
strptimeDayFirst(tok) == [year |-> tok[3], month |-> tok[2], day |-> tok[1]]

strptime(tok) == [year |-> tok[3], month |-> tok[1], day |-> tok[2]]

\* .strftime("%Y-%m-%d")
strftime(dt) == <<dt.year, dt.month, dt.day>>

dmY_to_Ymd(tok) == strftime(strptime(tok))

\* Order of two ISO dates (of the timestamps pd.to_datetime makes of them).
IsoLE(a, b) ==
    \/ a[1] < b[1]
    \/ a[1] = b[1] /\ a[2] < b[2]
    \/ a[1] = b[1] /\ a[2] = b[2] /\ a[3] <= b[3]

\* i.text.replace(" Remove", "")
StripRemove(text) == SelectSeq(text, LAMBDA t : t # RemoveLabel)

\* get_anime_update_history on a page that has its header.
ScrapedRecord(id, page) ==
    [anime_title |-> id, anime_id |-> id,
     updates |-> [k \in 1..Len(page.pads) |-> StripRemove(page.pads[k])]]


\* ------------------------------------------------------------ remote service
\* What the service holds for one anime id: not on the user's list, or its
\* list_status.
NotListed == [status |-> "none", score |-> 0]
RemoteEntries == {NotListed} \cup [status : Statuses, score : Scores]

\* One element of response["data"], flattened as line 119 does:
\* {**item["node"], **item["list_status"]}.
Item(i, e) == [id |-> i, title |-> i, status |-> e.status, score |-> e.score]

RECURSIVE ListFrom(_, _)
ListFrom(r, i) ==
    IF i > MaxItems THEN <<>>
    ELSE (IF r[i].status = "none" THEN <<>> ELSE <<Item(i, r[i])>>) \o ListFrom(r, i + 1)

\* The user's list as the service serves it.
RemoteList(r) == ListFrom(r, 1)

Min(a, b) == IF a < b THEN a ELSE b

\* The answer to GET .../animelist?limit=..&offset=off.
PageData(r, off) == SubSeq(RemoteList(r), off + 1, Min(off + PageLimit, Len(RemoteList(r))))
PageHasNext(r, off) == off + PageLimit < Len(RemoteList(r))

\* ------------------------------------------------------------------- state
VARIABLES
    entry,          \* "script": python main.py; "session": the module is run where
                    \* the global name mal is already bound to a client
    malBound,       \* the module global mal is bound (line 203)
    pc,             \* position of the run
    err,            \* the exception that ended the run
    run,            \* number of the run
    tokenFile,      \* token.json exists
    tokenLoaded,    \* this run read its token from token.json (lines 26-28)
    token,          \* self.token
    code,           \* self.code
    listener,       \* the aiohttp callback listener of _authorize
    badRedirects,   \* callback requests without a code answered in this run
    remote,         \* the service's list
    remoteChanges,  \* edits of the list during this run's paging
    numAnime,       \* num_anime of get_animelist
    url,            \* the offset of the page url of get_animelist
    animelist,      \* animelist of get_animelist
    pageSum,        \* sum of len(response["data"]) over the pages of this run
    alist,          \* self.alist
    cacheDir,       \* the directory cache/ exists
    cache,          \* cache/<id>.json -> content (<<>>: zero bytes, <<r>>: record r)
    ci,             \* index of the loop of cache_completed_histories
    ret,            \* the records get_start_finish_dates returned
    df,             \* the frame get_reorder_df returned
    patches,        \* PATCH requests sent by reorder_by_finished_date, in order
    fetches,        \* per id: history requests sent, over all runs
    writes          \* per id: history records dumped to the cache file, over all runs

fsVars == <<tokenFile, cacheDir, cache>>
memVars == <<malBound, token, code, listener, badRedirects, numAnime, url, animelist,
             pageSum, alist, ci, ret, df>>
ghostVars == <<fetches, writes>>
vars == <<entry, pc, err, run, tokenLoaded, remote, remoteChanges, patches, fsVars,
          memVars, ghostVars>>

NoFiles == [i \in {} |-> <<>>]
Zero == [i \in Ids |-> 0]

Init ==
    /\ entry \in {"script", "session"}
    /\ malBound = (entry = "session")
    /\ pc = "start"
    /\ err = "none"
    /\ run = 1
    /\ tokenFile \in BOOLEAN
    /\ tokenLoaded = FALSE
    /\ token = "none"
    /\ code = "none"
    /\ listener = "idle"
    /\ badRedirects = 0
    /\ remote \in [Ids -> RemoteEntries]
    /\ remoteChanges = 0
    /\ numAnime = 0
    /\ url = 0
    /\ animelist = <<>>
    /\ pageSum = 0
    /\ alist = <<>>
    /\ cacheDir = FALSE
    /\ cache = NoFiles
    /\ ci = 0
    /\ ret = <<>>
    /\ df = <<>>
    /\ patches = <<>>
    /\ fetches = Zero
    /\ writes = Zero

\* The locals of get_animelist are gone.
FetchLocalsGone ==
    /\ numAnime' = 0
    /\ url' = 0
    /\ animelist' = <<>>
    /\ pageSum' = 0

\* The process has ended: what it held in memory is gone, what it wrote to disk
\* and sent over the network is not.
ProcessGone ==
    /\ malBound' = (entry = "session")
    /\ token' = "none"
    /\ code' = "none"
    /\ listener' = "idle"
    /\ badRedirects' = 0
    /\ FetchLocalsGone
    /\ alist' = <<>>
    /\ ci' = 0
    /\ ret' = <<>>
    /\ df' = <<>>

\* An unhandled exception ends the run.
Crash(e) == pc' = "crashed" /\ err' = e /\ ProcessGone

\* The script has run to its last line.
Finish == pc' = "done" /\ err' = "none" /\ ProcessGone

\* ------------------------------------------------------- __init__, _authorize
\* Lines 19-30: load token.json, or start the callback listener (web.run_app).
Construct ==
    /\ pc = "start"
    /\ tokenLoaded' = tokenFile
    /\ IF tokenFile
       THEN /\ token' = "tok"
            /\ pc' = "load_alist"
            /\ UNCHANGED listener
       ELSE /\ listener' = "running"
            /\ pc' = "listening"
            /\ UNCHANGED token
    /\ UNCHANGED <<entry, err, run, remote, remoteChanges, patches, fsVars, ghostVars,
                   malBound, code, badRedirects, numAnime, url, animelist, pageSum,
                   alist, ci, ret, df>>

\* The handler keeps the code but leaves the listener serving.
HandleCodeKeepsListening ==
    /\ pc = "listening"
    /\ code' = "code"
    /\ pc' = "exchange"
    /\ UNCHANGED <<entry, tokenLoaded, err, run, remote, remoteChanges, patches, fsVars,
                   ghostVars, malBound, token, listener, badRedirects, numAnime, url,
                   animelist, pageSum, alist, ci, ret, df>>

\* Lines 39-45, a GET /callback with a code: the code is kept and GracefulExit
\* ends web.run_app, which closes the listener before it returns (line 72).
HandleCode ==
    /\ pc = "listening"
    /\ code' = "code"
    /\ listener' = "stopped"
    /\ pc' = "exchange"
    /\ UNCHANGED <<entry, tokenLoaded, err, run, remote, remoteChanges, patches, fsVars, ghostVars,
                   malBound, token, badRedirects, numAnime, url, animelist, pageSum,
                   alist, ci, ret, df>>

\* The handler ends the listener whether or not the request carries a code.
HandleNoCodeExits ==
    /\ pc = "listening"
    /\ badRedirects < MaxBadRedirects
    /\ badRedirects' = badRedirects + 1
    /\ listener' = "stopped"
    /\ pc' = "exchange"
    /\ UNCHANGED <<entry, tokenLoaded, err, run, remote, remoteChanges, patches, fsVars,
                   ghostVars, malBound, token, code, numAnime, url, animelist, pageSum,
                   alist, ci, ret, df>>

\* Lines 39-45, a GET /callback without a code: HTTPBadRequest is the 400 answer
\* to that request; web.run_app keeps serving.
HandleNoCode ==
    /\ pc = "listening"
    /\ badRedirects < MaxBadRedirects
    /\ badRedirects' = badRedirects + 1
    /\ UNCHANGED <<entry, tokenLoaded, pc, err, run, remote, remoteChanges, patches, fsVars, ghostVars,
                   malBound, token, code, listener, numAnime, url, animelist, pageSum,
                   alist, ci, ret, df>>

\* Lines 47-65 (called from line 73): POST the code; raise_for_status on a
\* non-2xx answer; else dump the token to token.json and keep it.  The count of
\* answered bad requests is of no use after the authorisation.
GetAccessToken ==
    /\ pc = "exchange"
    /\ \E ok \in BOOLEAN :
          IF ok
          THEN /\ tokenFile' = TRUE
               /\ token' = "tok"
               /\ badRedirects' = 0
               /\ pc' = "load_alist"
               /\ UNCHANGED <<err, malBound, code, listener, numAnime, url, animelist,
                              pageSum, alist, ci, ret, df>>
          ELSE /\ Crash("HTTPError")
               /\ UNCHANGED tokenFile
    /\ UNCHANGED <<entry, tokenLoaded, run, remote, remoteChanges, patches, cacheDir, cache, ghostVars>>

\* ------------------------------------------------------------- get_animelist
\* Line 31 evaluates the global name mal, then lines 105-110: read the item
\* count of the statistics endpoint and set the first page url.
LoadAlist ==
    /\ pc = "load_alist"
    /\ IF ~malBound
       THEN Crash("NameError")
       ELSE \E ok \in BOOLEAN :
               IF ok
               THEN /\ numAnime' = Len(RemoteList(remote))
                    /\ url' = 0
                    /\ animelist' = <<>>
                    /\ pageSum' = 0
                    /\ pc' = "paging"
                    /\ UNCHANGED <<err, malBound, token, code, listener, badRedirects,
                                   alist, ci, ret, df>>
               ELSE Crash("HTTPError")
    /\ UNCHANGED <<entry, tokenLoaded, run, remote, remoteChanges, patches, fsVars, ghostVars>>

\* The page assigned to the list instead of appended to it.
AccumulateOverwrite(list, data) == data

\* Line 113: animelist += response["data"].
Accumulate(list, data) == list \o data

\* Lines 111-121: one turn of the loop; after the page without "next" the list
\* is flattened and returned into self.alist (line 31).
FetchPage ==
    /\ pc = "paging"
    /\ \E ok \in BOOLEAN :
          IF ok
          THEN /\ animelist' = Accumulate(animelist, PageData(remote, url))
               /\ pageSum' = pageSum + Len(PageData(remote, url))
               /\ IF PageHasNext(remote, url)
                  THEN /\ url' = url + PageLimit
                       /\ UNCHANGED <<pc, alist>>
                  ELSE /\ alist' = animelist'
                       /\ pc' = "constructed"
                       /\ UNCHANGED url
               /\ UNCHANGED <<err, malBound, token, code, listener, badRedirects,
                              numAnime, ci, ret, df>>
          ELSE Crash("HTTPError")
    /\ UNCHANGED <<entry, tokenLoaded, run, remote, remoteChanges, patches, fsVars, ghostVars>>

\* The user (or another client) edits the list while it is being paged.
RemoteChange ==
    /\ pc = "paging"
    /\ remoteChanges < MaxRemoteChanges
    /\ \E i \in Ids, e \in RemoteEntries :
          /\ e # remote[i]
          /\ remote' = [remote EXCEPT ![i] = e]
    /\ remoteChanges' = remoteChanges + 1
    /\ UNCHANGED <<entry, tokenLoaded, pc, err, run, patches, fsVars, memVars, ghostVars>>

\* Line 203: the constructor has returned and the name mal is bound; the fetch
\* is over, and with it the count of the edits made during it.
BindMal ==
    /\ pc = "constructed"
    /\ malBound' = TRUE
    /\ pc' = "cache_start"
    /\ FetchLocalsGone
    /\ remoteChanges' = 0
    /\ UNCHANGED <<entry, tokenLoaded, err, run, remote, patches, fsVars, ghostVars,
                   token, code, listener, badRedirects, alist, ci, ret, df>>

\* ------------------------------------------------- cache_completed_histories
\* Line 149-150: the rows of self.alist whose status is "completed".
Completed(frame) == SelectSeq(frame, LAMBDA it : it.status = "completed")

\* Where the run goes after the item at index i of the loop of line 150.
AfterCacheItem(i) == IF i < Len(Completed(alist)) THEN "cache" ELSE "dates"

\* Lines 149-150: a frame made from no records has no column "status".
CacheStart ==
    /\ pc = "cache_start"
    /\ IF alist = <<>>
       THEN Crash("AttributeError")
       ELSE /\ ci' = 1
            /\ pc' = AfterCacheItem(0)
            /\ UNCHANGED <<err, malBound, token, code, listener, badRedirects, numAnime,
                           url, animelist, pageSum, alist, ret, df>>
    /\ UNCHANGED <<entry, tokenLoaded, run, remote, remoteChanges, patches, fsVars, ghostVars>>

\* What the history request of line 125 can come to: the request fails
\* (raise_for_status), or a page arrives.
FetchOutcomes == [ok : {FALSE}, page : {[header |-> FALSE, pads |-> <<>>]}]
                     \cup [ok : {TRUE}, page : HistoryPages]

\* The exception of get_anime_update_history (lines 123-133), "none" without.
ScrapeError(o) ==
    IF ~o.ok THEN "HTTPError"
    ELSE IF ~o.page.header THEN "AttributeError"
    ELSE "none"

\* cache_anime_update_history (lines 139-145): what cache/<id>.json holds after
\* the call, given what it held (the file is opened for writing, and so created
\* and emptied, before the request is sent).
FileAfterCache(id, files, o) ==
    IF id \in DOMAIN files THEN files
    ELSE IF ScrapeError(o) # "none" THEN (id :> <<>>) @@ files
    ELSE (id :> <<ScrapedRecord(id, o.page)>>) @@ files

CacheStepKeeps ==
    <<malBound, token, code, listener, badRedirects, numAnime, url, animelist, pageSum,
      alist, ret, df>>

\* Lines 151-154: one turn of the loop: mkdir cache, then
\* cache_anime_update_history for the item.
CacheStep ==
    /\ pc = "cache"
    /\ LET id == Completed(alist)[ci].id
       IN  /\ cacheDir' = TRUE
           /\ IF id \in DOMAIN cache
              THEN /\ cache' = FileAfterCache(id, cache, CHOOSE o \in FetchOutcomes : TRUE)
                   /\ ci' = ci + 1
                   /\ pc' = AfterCacheItem(ci)
                   /\ UNCHANGED <<err, fetches, writes, CacheStepKeeps>>
              ELSE \E o \in FetchOutcomes :
                      /\ cache' = FileAfterCache(id, cache, o)
                      /\ fetches' = [fetches EXCEPT ![id] = @ + 1]
                      /\ IF ScrapeError(o) # "none"
                         THEN /\ Crash(ScrapeError(o))
                              /\ UNCHANGED writes
                         ELSE /\ writes' = [writes EXCEPT ![id] = @ + 1]
                              /\ ci' = ci + 1
                              /\ pc' = AfterCacheItem(ci)
                              /\ UNCHANGED <<err, CacheStepKeeps>>
    /\ UNCHANGED <<entry, tokenLoaded, run, remote, remoteChanges, patches, tokenFile>>

\* ------------------------------------------------------ get_start_finish_dates
\* The exception lines 166-174 raise on one cache file, "none" without:
\* json.load of an empty file, updates[-1] of an empty list, split()[4] of a
\* short text, strptime of a text that is no date; start_date is computed first.
\* The fifth token taken as it is, without strptime.
TokenErrorUnparsed(text) == IF Len(text) < 5 THEN "IndexError" ELSE "none"

TokenError(text) ==
    IF Len(text) < 5 THEN "IndexError"
    ELSE IF ~strptime_ok(text[5]) THEN "ValueError"
    ELSE "none"

FileError(content) ==
    IF content = <<>> THEN "JSONDecodeError"
    ELSE LET u == content[1].updates
         IN  IF u = <<>> THEN "IndexError"
             ELSE IF TokenError(u[Len(u)]) # "none" THEN TokenError(u[Len(u)])
             ELSE TokenError(u[1])

\* Lines 168-174: the record made of one cache file.
DateRow(data) ==
    [id |-> data.anime_id,
     start_date |-> dmY_to_Ymd(data.updates[Len(data.updates)][5]),
     finish_date |-> dmY_to_Ymd(data.updates[1][5])]

\* The orders os.listdir may list a set of files in.
RECURSIVE Listings(_)
Listings(S) ==
    IF S = {} THEN {<<>>}
    ELSE UNION { { <<x>> \o rest : rest \in Listings(S \ {x}) } : x \in S }

\* The first file of a listing that raises, 0 if none does.
RECURSIVE FirstBad(_, _, _)
FirstBad(files, names, k) ==
    IF k > Len(names) THEN 0
    ELSE IF FileError(files[names[k]]) # "none" THEN k
    ELSE FirstBad(files, names, k + 1)

\* Lines 161-175.
GetStartFinishDates ==
    /\ pc = "dates"
    /\ IF ~cacheDir
       THEN Crash("FileNotFoundError")
       ELSE \E names \in Listings(DOMAIN cache) :
               LET bad == FirstBad(cache, names, 1)
               IN  IF bad # 0
                   THEN Crash(FileError(cache[names[bad]]))
                   ELSE /\ ret' = [k \in 1..Len(names) |-> DateRow(cache[names[k]][1])]
                        /\ pc' = "df"
                        /\ UNCHANGED <<err, malBound, token, code, listener, badRedirects,
                                       numAnime, url, animelist, pageSum, alist, ci, df>>
    /\ UNCHANGED <<entry, tokenLoaded, run, remote, remoteChanges, patches, fsVars, ghostVars>>

\* ---------------------------------------------------------------- get_reorder_df
IsSortedByFinish(rows) ==
    \A i, j \in 1..Len(rows) : i < j => IsoLE(rows[i].finish_date, rows[j].finish_date)

\* The frame left in the order of the records.
sort_values_skipped(rows) == {rows}

\* df.sort_values("sort"), sort being pd.to_datetime(finish_date): the orders
\* of the rows the sort may return (rows of equal key in either order).
sort_values(rows) ==
    { s \in { [k \in 1..Len(rows) |-> rows[names[k]]] : names \in Listings(1..Len(rows)) } :
        IsSortedByFinish(s) }

\* The rows an inner join makes of one left row: one per right row of its id,
\* in the right frame's order, with the right frame's score and title.
JoinRow(l, right) ==
    LET matches == SelectSeq(right, LAMBDA r : r.id = l.id)
    IN  [k \in 1..Len(matches) |->
            [id |-> l.id, start_date |-> l.start_date, finish_date |-> l.finish_date,
             score |-> matches[k].score, title |-> matches[k].title]]

\* df.merge(right, on="id"): an inner join keeps the order of the left keys.
RECURSIVE merge(_, _)
merge(left, right) ==
    IF left = <<>> THEN <<>> ELSE JoinRow(Head(left), right) \o merge(Tail(left), right)

\* Lines 177-183: a frame made from no records has no column "finish_date",
\* and one made from an empty catalogue has no column "id" to select.
GetReorderDf ==
    /\ pc = "df"
    /\ IF ret = <<>>
       THEN Crash("AttributeError")
       ELSE IF alist = <<>>
       THEN Crash("KeyError")
       ELSE \E s \in sort_values(ret) :
               IF merge(s, alist) = <<>>
               THEN Finish
               ELSE /\ df' = merge(s, alist)
                    /\ pc' = "patch"
                    /\ UNCHANGED <<err, malBound, token, code, listener, badRedirects,
                                   numAnime, url, animelist, pageSum, alist, ci, ret>>
    /\ UNCHANGED <<entry, tokenLoaded, run, remote, remoteChanges, patches, fsVars, ghostVars>>

\* ------------------------------------------------------ reorder_by_finished_date
\* The PATCH of lines 193-199 for one row of the frame.
PatchOf(i) ==
    [anime_id |-> i.id, score |-> i.score,
     start_date |-> i.start_date, finish_date |-> i.finish_date]

\* What requests.patch (line 86) can come to: an answer of any status, which is
\* only printed, or no answer at all.
PatchOutcomes == {"200", "400", "ConnectionError"}

\* Lines 192-199: one turn of the loop.
Patch ==
    /\ pc = "patch"
    /\ \E o \in PatchOutcomes :
          IF o = "ConnectionError"
          THEN /\ Crash("ConnectionError")
               /\ UNCHANGED patches
          ELSE /\ patches' = Append(patches, PatchOf(df[Len(patches) + 1]))
               /\ IF Len(patches') < Len(df)
                  THEN UNCHANGED <<pc, err, memVars>>
                  ELSE Finish
    /\ UNCHANGED <<entry, tokenLoaded, run, remote, remoteChanges, fsVars, ghostVars>>

\* -------------------------------------------------------------------- runs
\* The script is run again in the same working directory: the files stay, the
\* process state is new, and the remote list is whatever it has become.
Restart ==
    /\ pc \in {"done", "crashed"}
    /\ run < MaxRuns
    /\ run' = run + 1
    /\ pc' = "start"
    /\ err' = "none"
    /\ remote' \in [Ids -> RemoteEntries]
    /\ remoteChanges' = 0
    /\ tokenLoaded' = FALSE
    /\ patches' = <<>>
    /\ UNCHANGED <<entry, fsVars, memVars, ghostVars>>

Next ==
    \/ Construct
    \/ HandleCode
    \/ HandleNoCode
    \/ GetAccessToken
    \/ LoadAlist
    \/ FetchPage
    \/ RemoteChange
    \/ BindMal
    \/ CacheStart
    \/ CacheStep
    \/ GetStartFinishDates
    \/ GetReorderDf
    \/ Patch
    \/ Restart

Spec == Init /\ [][Next]_vars

\* ------------------------------------------------- get_start_finish_dates alone
\* The date texts, the update texts (already stripped of " Remove") and the
\* histories one cache file may hold.
DateTexts == { <<m, d, y>> : m \in {1, 2, 12, 13}, d \in {1, 29, 31}, y \in {2019, 2020} }
UpdateTexts == { <<Word, Word, Word, Word, d, Word, Word>> : d \in DateTexts }
                   \cup { <<Word, Word>> }
UpdateLists == UNION { [1..n -> UpdateTexts] : n \in 0..MaxUpdates }

\* The run has cached the one completed item of the catalogue and stands
\* before get_start_finish_dates.
InitDates ==
    \E i \in Ids, sc \in Scores, u \in UpdateLists :
       /\ entry = "session"
       /\ malBound = TRUE
       /\ pc = "dates"
       /\ err = "none"
       /\ run = 1
       /\ tokenFile = TRUE
       /\ tokenLoaded = TRUE
       /\ token = "tok"
       /\ code = "none"
       /\ listener = "idle"
       /\ badRedirects = 0
       /\ remote = [j \in Ids |-> IF j = i THEN [status |-> "completed", score |-> sc]
                                            ELSE NotListed]
       /\ remoteChanges = 0
       /\ numAnime = 0
       /\ url = 0
       /\ animelist = <<>>
       /\ pageSum = 0
       /\ alist = RemoteList(remote)
       /\ cacheDir = TRUE
       /\ cache = (i :> <<[anime_title |-> i, anime_id |-> i, updates |-> u]>>)
       /\ ci = 2
       /\ ret = <<>>
       /\ df = <<>>
       /\ patches = <<>>
       /\ fetches = [j \in Ids |-> IF j = i THEN 1 ELSE 0]
       /\ writes = [j \in Ids |-> IF j = i THEN 1 ELSE 0]

NextDates == GetStartFinishDates

SpecDates == InitDates /\ [][NextDates]_vars

\* ------------------------------------------------------------------ claims
\* What the claims call things.
NetworkErrors == {"HTTPError", "ConnectionError"}
RecordErrors == {"IndexError", "ValueError"}

\* The id cache_completed_histories is at.
CurrentId == Completed(alist)[ci].id

\* A date text is a calendar date written MM/DD/YYYY.
IsCalendarDate(tok) ==
    /\ Len(tok) = 3
    /\ tok[1] \in 1..12
    /\ tok[2] \in 1..DaysInMonth(tok[1], tok[3])

\* The update text carries, as its fifth token, a calendar date.
WellFormedText(text) == Len(text) >= 5 /\ IsCalendarDate(text[5])

\* The ISO form YYYY-MM-DD of a date written MM/DD/YYYY.
IsoForm(tok) == <<tok[3], tok[1], tok[2]>>

\* The calendar date of text a is not later than that of text b.
NotLater(a, b) ==
    \/ a[3] < b[3]
    \/ a[3] = b[3] /\ a[1] < b[1]
    \/ a[3] = b[3] /\ a[1] = b[1] /\ a[2] <= b[2]

MostRecentFirst(u) ==
    /\ \A i \in 1..Len(u) : WellFormedText(u[i])
    /\ \A i, j \in 1..Len(u) : i < j => NotLater(u[j][5], u[i][5])

\* A cached record is bad: its updates list is empty, or the first or the last
\* update text carries no date.
BadRecord(content) ==
    /\ content # <<>>
    /\ \/ content[1].updates = <<>>
       \/ ~WellFormedText(content[1].updates[1])
       \/ ~WellFormedText(content[1].updates[Len(content[1].updates)])

\* Exactly one of several cached records is bad, the others are well formed.
OneBadOfSeveral ==
    /\ Cardinality(DOMAIN cache) >= 2
    /\ \A i \in DOMAIN cache : cache[i] # <<>>
    /\ Cardinality({i \in DOMAIN cache : BadRecord(cache[i])}) = 1

\* C1: a run of the script that finds token.json can end abnormally only by a
\* failed network call; with every call succeeding it runs the whole pipeline
\* and ends normally.
C1_RunWithTokenCompletes ==
    (entry = "script" /\ tokenLoaded /\ pc = "crashed") => err \in NetworkErrors

\* C2: a call of cache_anime_update_history for an id whose file an earlier call
\* has made (files start absent) sends no request and leaves the file as it is,
\* and after it there have been exactly one request and exactly one write of a
\* record for that id.
C2_TwoCallsOneFetchOneWrite ==
    [][(pc = "cache" /\ CurrentId \in DOMAIN cache)
          => /\ cache' = cache
             /\ fetches' = fetches
             /\ fetches'[CurrentId] = 1
             /\ writes'[CurrentId] = 1]_vars

\* C3: every file under cache/ holds a complete history record; no empty file is
\* left behind.
C3_CacheFilesComplete ==
    \A i \in DOMAIN cache :
       /\ Len(cache[i]) = 1
       /\ DOMAIN cache[i][1] = {"anime_title", "anime_id", "updates"}

\* C4: on a catalogue that has items, none of them completed,
\* cache_completed_histories and reorder_by_finished_date run without an error
\* and lead to no PATCH, whatever the cache directory holds.
C4_NoCompletedNoPatch ==
    [][(pc \in {"cache_start", "dates", "df"} /\ alist # <<>> /\ Completed(alist) = <<>>)
          => /\ pc' \notin {"crashed", "patch"}
             /\ patches' = <<>>]_vars

C6_SortedByFinish ==
    /\ \A i, j \in 1..Len(df) : i < j => IsoLE(df[i].finish_date, df[j].finish_date)
    /\ \A i, j \in 1..Len(patches) :
          i < j => IsoLE(patches[i].finish_date, patches[j].finish_date)

\* C6 witness: two PATCHes of different finish dates were sent, in another order
\* than the catalogue lists the two items.
C6_Witness ==
    /\ Len(patches) >= 2
    /\ patches[1].finish_date # patches[2].finish_date
    /\ patches[1].anime_id > patches[2].anime_id

\* C7: get_animelist returns after a page without a next cursor, with as many
\* rows as the pages held items; if the list was not edited meanwhile these are
\* the items of the list, as many as the statistics endpoint reported.
C7_CatalogLength ==
    pc = "constructed"
       => /\ ~PageHasNext(remote, url)
          /\ Len(alist) = pageSum
          /\ remoteChanges = 0 => (alist = RemoteList(remote) /\ Len(alist) = numAnime)

\* C7 witness: a list of several pages was fetched without an edit.
C7_Witness ==
    pc = "constructed" /\ remoteChanges = 0 /\ Len(alist) >= 2 /\ url > 0

\* C8 as claimed: the listener is still running when the token file is written.
C8_ListenerRunsAtTokenWrite ==
    [][tokenFile' # tokenFile => listener = "running"]_vars

\* C8 as amended: the listener stops when the code is received, before the
\* token exchange; the token file is written with the code received and the
\* listener already stopped.
C8_ListenerStoppedBeforeTokenWrite ==
    [][/\ tokenFile' # tokenFile
          => /\ code = "code"
             /\ listener = "stopped"
             /\ listener' = "stopped"
       /\ (code = "none" /\ code' = "code")
          => /\ listener = "running"
             /\ listener' = "stopped"
             /\ tokenFile' = FALSE]_vars

\* C8 witness: the first-run authorisation has written the token file.
C8_Witness ==
    pc = "load_alist" /\ ~tokenLoaded /\ tokenFile /\ token = "tok" /\ listener = "stopped"

\* C9 as claimed: the run that aborts on the one bad record has PATCHed some
\* items by then.
C9_AbortLeavesSomePatched ==
    (pc = "crashed" /\ err \in RecordErrors /\ OneBadOfSeveral) => Len(patches) >= 1

\* C9 as amended: with one bad record among the cached ones, no run gets past
\* get_start_finish_dates, and no PATCH has been sent when it aborts there.
C9_AbortBeforeAnyPatch ==
    OneBadOfSeveral => (pc \notin {"df", "patch"} /\ patches = <<>>)

\* C9 witness: the run has aborted on the one bad record of several.
C9_Witness == pc = "crashed" /\ err \in RecordErrors /\ OneBadOfSeveral

====
